---- MODULE Spec2Model ----
(***************************************************************************)
(* React.Children (map, forEach, count, toArray, only) and its key         *)
(* machinery (escape, escapeUserProvidedKey, getElementKey, mapIntoArray). *)
(*                                                                         *)
(* A JavaScript string is a sequence of one-character strings, so that the *)
(* escapers act on characters.  A JavaScript value is a record             *)
(*   [tag, key, val, kids]                                                 *)
(* tag  : "null" "undefined" "boolean" "string" "number" "element"         *)
(*        "portal" "array" "iterable" "object"                             *)
(* key  : <<>> for a null/absent key, <<s>> for the key s (a string)       *)
(* val  : a label (the element's type, the scalar's text)                  *)
(* kids : the items of an array, or the values an iterable yields          *)
(***************************************************************************)
EXTENDS Integers, Sequences, FiniteSets, TLC

VARIABLES
  children,     \* the children value the operations are applied to
  op,           \* "idle", or the operation that has been applied
  fn,           \* the callback the operation was given, <<>> when it takes none
  result,       \* the outcome of the operation
  rawKeys,      \* a pair of raw keys handed to escape
  escapedKeys   \* their escaped forms

vars == <<children, op, fn, result, rawKeys, escapedKeys>>

----------------------------------------------------------------------------
(* Bounds of the model *)

MaxSize == 4

MaxKeyLen == 2

----------------------------------------------------------------------------
(* Values *)

NoKey == <<>>

Value(tag, key, val, kids) == [tag |-> tag, key |-> key, val |-> val, kids |-> kids]

NullValue == Value("null", NoKey, "", <<>>)

UndefinedValue == Value("undefined", NoKey, "", <<>>)

BoolValue == Value("boolean", NoKey, "true", <<>>)

StringValue(s) == Value("string", NoKey, s, <<>>)

Element(val, key) == Value("element", key, val, <<>>)

Portal(val, key) == Value("portal", key, val, <<>>)

ArrayOf(kids) == Value("array", NoKey, "", kids)

IterableOf(kids) == Value("iterable", NoKey, "", kids)

PlainObject == Value("object", NoKey, "{a}", <<>>)

\* typeof v
TypeOf(v) ==
  IF v.tag \in {"undefined", "boolean", "string", "number"} THEN v.tag ELSE "object"

\* v == null  (null or undefined)
IsNullish(v) == v.tag \in {"null", "undefined"}

\* Array.isArray(v)
IsArray(v) == v.tag = "array"

\* ReactElement.isValidElement: the leaf predicate of the element abstraction
isValidElement(v) == v.tag \in {"element", "portal"}

\* ReactElement.cloneAndReplaceKey: the same leaf with a new own key
cloneAndReplaceKey(oldElement, newKey) == [oldElement EXCEPT !.key = <<newKey>>]

\* shared/ReactSymbols.getIteratorFn: is there an iterator function
getIteratorFn(v) == v.tag = "iterable"

----------------------------------------------------------------------------
(* Key machinery *)

SEPARATOR == <<".">>

SUBSEPARATOR == <<":">>

Radix == 36

Digits36 ==
  << "0", "1", "2", "3", "4", "5", "6", "7", "8", "9", "a", "b", "c", "d", "e",
     "f", "g", "h", "i", "j", "k", "l", "m", "n", "o", "p", "q", "r", "s", "t",
     "u", "v", "w", "x", "y", "z" >>

RECURSIVE ToString36(_)
\* index.toString(36)
ToString36(n) ==
  IF n < Radix THEN <<Digits36[n + 1]>>
  ELSE ToString36(n \div Radix) \o <<Digits36[(n % Radix) + 1]>>

\* escaperLookup[match] for the characters of escapeRegex, the character
\* itself otherwise
escaperLookup(c) ==
  IF c = "=" THEN <<"=", "0">>
  ELSE IF c = ":" THEN <<"=", "2">>
  ELSE <<c>>

RECURSIVE ReplaceEscape(_)
\* key.replace(escapeRegex, match => escaperLookup[match])
ReplaceEscape(key) ==
  IF key = <<>> THEN <<>> ELSE escaperLookup(Head(key)) \o ReplaceEscape(Tail(key))

\* Variant of escape: the '$' prefix is left out
escapeNoDollar(key) == ReplaceEscape(key)

\* Variant of escape: '=' and ':' are not replaced
escapeNoLookup(key) == <<"$">> \o key

\* '$' + escapedString
escape(key) == <<"$">> \o ReplaceEscape(key)

RECURSIVE escapeUserProvidedKey(_)
\* text.replace(/\/+/g, '$&/'): every maximal run of '/' gets one more '/'
escapeUserProvidedKey(text) ==
  IF text = <<>> THEN <<>>
  ELSE IF Head(text) = "/" /\ (Len(text) = 1 \/ text[2] # "/")
       THEN <<"/", "/">> \o escapeUserProvidedKey(Tail(text))
       ELSE <<Head(text)>> \o escapeUserProvidedKey(Tail(text))

\* Explicit key, escaped, or the index in base 36
getElementKey(element, index) ==
  IF TypeOf(element) = "object" /\ element.tag # "null" /\ element.key # NoKey
  THEN escape(element.key[1])
  ELSE ToString36(index)

----------------------------------------------------------------------------
(* The callbacks handed to the traversal operations.  A callback under      *)
(* test is a pair of return kinds: the kind of its return value for even    *)
(* and for odd values of the index it is called with.                       *)

ElemX == Element("X", NoKey)

ElemY == Element("Y", NoKey)

ReturnOf(kind, child) ==
  CASE kind = "same"     -> child
    [] kind = "none"     -> UndefinedValue
    [] kind = "single"   -> ArrayOf(<<ElemX>>)
    [] kind = "pair"     -> ArrayOf(<<Element("X", <<<<"0">>>>), ArrayOf(<<ElemY>>)>>)
    [] kind = "bad"      -> ArrayOf(<<ElemX, PlainObject, ElemY>>)
    [] kind = "object"   -> PlainObject
    [] kind = "noKey"    -> ElemX
    [] kind = "key0"     -> Element("X", <<<<"0">>>>)
    [] kind = "keyEmpty" -> Element("X", <<<<>>>>)
    [] kind = "keyDot1"  -> Element("X", <<<<".", "1">>>>)

\* func.call(context, child, index) for a callback under test
UserApply(f, child, index) == ReturnOf(f[(index % 2) + 1], child)

----------------------------------------------------------------------------
(* mapIntoArray.  The traversal state st is threaded through the calls:     *)
(*   array   the accumulator                                                *)
(*   count   mapChildren's running index                                    *)
(*   n       countChildren's counter                                        *)
(*   err     an invariant has thrown; the exception unwinds every caller    *)
(*   ret     the value mapIntoArray returned                                *)
(* and three records of what happened, which the code does not keep:        *)
(*   origin  for each entry of array, the index of the call it came from    *)
(*   calls   the calls of the function handed to mapChildren                *)
(*   log     the re-flattenings of arrays returned by the callback          *)

EmptyState ==
  [array |-> <<>>, count |-> 0, n |-> 0, err |-> FALSE, ret |-> 0,
   origin |-> <<>>, calls |-> <<>>, log |-> <<>>]

\* c => c
IdentityCallback == [kind |-> "identity", func |-> <<>>]

\* function(child) { return func.call(context, child, count++); }
CountingCallback(func) == [kind |-> "counting", func |-> func]

\* The function handed to mapChildren, called with (child, index):
\*   a callback under test                  (map)
\*   function() { forEachFunc.apply(this, arguments); }   (forEach)
\*   () => { n++; }                         (count)
\*   child => child                         (toArray)
FuncResult(func, child, index) ==
  CASE func.kind = "user"    -> UserApply(func.f, child, index)
    [] func.kind = "forEach" -> UndefinedValue
    [] func.kind = "count"   -> UndefinedValue
    [] func.kind = "toArray" -> child

\* Variant of InvokeCallback: the index handed over stays 0
InvokeCallbackNoIncrement(callback, child, st, childKey, escapedPrefix) ==
  IF callback.kind = "identity"
  THEN [mappedChild |-> child, st |-> st]
  ELSE LET mapped == FuncResult(callback.func, child, 0)
       IN [mappedChild |-> mapped,
           st |-> [st EXCEPT
                     !.count = @ + 1,
                     !.n = IF callback.func.kind = "count" THEN @ + 1 ELSE @,
                     !.calls = Append(@, [child |-> child, index |-> 0,
                                          ret |-> mapped, childKey |-> childKey,
                                          escapedPrefix |-> escapedPrefix])]]

\* callback(child): the value returned and the state after the call
InvokeCallback(callback, child, st, childKey, escapedPrefix) ==
  IF callback.kind = "identity"
  THEN [mappedChild |-> child, st |-> st]
  ELSE LET mapped == FuncResult(callback.func, child, st.count)
       IN [mappedChild |-> mapped,
           st |-> [st EXCEPT
                     !.count = @ + 1,
                     !.n = IF callback.func.kind = "count" THEN @ + 1 ELSE @,
                     !.calls = Append(@, [child |-> child, index |-> st.count,
                                          ret |-> mapped, childKey |-> childKey,
                                          escapedPrefix |-> escapedPrefix])]]

\* nameSoFar === '' ? SEPARATOR + getElementKey(child, 0) : nameSoFar
ChildKeyOf(child, nameSoFar) ==
  IF nameSoFar = <<>> THEN SEPARATOR \o getElementKey(child, 0) ELSE nameSoFar

\* Variant of EscapedChildKey: the trailing '/' is left out
EscapedChildKeyNoSlash(childKey) == escapeUserProvidedKey(childKey)

\* escapedChildKey = escapeUserProvidedKey(childKey) + '/'  (childKey != null)
EscapedChildKey(childKey) == escapeUserProvidedKey(childKey) \o <<"/">>

\* The key handed to cloneAndReplaceKey.  mappedChild.key is truthy when it
\* is a non-empty string; !child holds for null, the empty string and 0.
ReplacedKey(escapedPrefix, mappedChild, child, childKey) ==
  escapedPrefix
    \o (IF /\ mappedChild.key # NoKey
           /\ mappedChild.key[1] # <<>>
           /\ \/ child.tag = "null"
              \/ (child.tag = "string" /\ child.val = "")
              \/ (child.tag = "number" /\ child.val = "0")
              \/ child.key # mappedChild.key
        THEN escapeUserProvidedKey(mappedChild.key[1]) \o <<"/">>
        ELSE <<>>)
    \o childKey

\* nameSoFar === '' ? SEPARATOR : nameSoFar + SUBSEPARATOR
NextNamePrefix(nameSoFar) ==
  IF nameSoFar = <<>> THEN SEPARATOR ELSE nameSoFar \o SUBSEPARATOR

\* Variant of ShouldPush: null and undefined results are appended too
ShouldPushAlways(mappedChild) == TRUE

\* mappedChild != null
ShouldPush(mappedChild) == ~IsNullish(mappedChild)

\* Variant of InvalidChild: the plain object is passed over in silence
InvalidChildSkipped(st) == st

\* invariant(false, 'Objects are not valid as a React child ...')
InvalidChild(st) == [st EXCEPT !.err = TRUE]

RECURSIVE mapIntoArray(_, _, _, _, _)
RECURSIVE mapEach(_, _, _, _, _, _, _)

\* The loops over an array's items and over an iterator's steps: both name
\* the i-th child nextNamePrefix + getElementKey(child, i) and add up what
\* the calls return.  An exception leaves the loop.
mapEach(kids, i, st, escapedPrefix, nextNamePrefix, callback, subtreeCount) ==
  IF st.err THEN st
  ELSE IF i > Len(kids) THEN [st EXCEPT !.ret = subtreeCount]
  ELSE LET child == kids[i]
           nextName == nextNamePrefix \o getElementKey(child, i - 1)
           st1 == mapIntoArray(child, st, escapedPrefix, nextName, callback)
       IN mapEach(kids, i + 1, st1, escapedPrefix, nextNamePrefix, callback,
                  subtreeCount + st1.ret)

mapIntoArray(children0, st, escapedPrefix, nameSoFar, callback) ==
  LET type == TypeOf(children0)
      chn == IF type \in {"undefined", "boolean"} THEN NullValue ELSE children0
      invokeCallback ==
        \/ chn.tag = "null"
        \/ type \in {"string", "number"}
        \/ (type = "object" /\ chn.tag \in {"element", "portal"})
  IN
  IF invokeCallback
  THEN LET child == chn
           childKey == ChildKeyOf(child, nameSoFar)
           called == InvokeCallback(callback, child, st, childKey, escapedPrefix)
           mappedChild == called.mappedChild
           st1 == called.st
           from == st1.count - 1
       IN IF IsArray(mappedChild)
          THEN LET escapedChildKey == EscapedChildKey(childKey)
                   st2 == [st1 EXCEPT !.log =
                             Append(@, [escapedPrefix |-> escapedPrefix,
                                        childKey |-> childKey,
                                        newPrefix |-> escapedChildKey,
                                        nameSoFar |-> <<>>,
                                        callback |-> IdentityCallback.kind])]
                   st3 == mapIntoArray(mappedChild, st2, escapedChildKey, <<>>,
                                       IdentityCallback)
               IN IF st3.err THEN st3 ELSE [st3 EXCEPT !.ret = 1]
          ELSE IF ShouldPush(mappedChild)
          THEN LET pushed ==
                     IF isValidElement(mappedChild)
                     THEN cloneAndReplaceKey(mappedChild,
                            ReplacedKey(escapedPrefix, mappedChild, child, childKey))
                     ELSE mappedChild
               IN [st1 EXCEPT !.array = Append(@, pushed),
                              !.origin = Append(@, from),
                              !.ret = 1]
          ELSE [st1 EXCEPT !.ret = 1]
  ELSE LET nextNamePrefix == NextNamePrefix(nameSoFar)
       IN IF IsArray(chn)
          THEN mapEach(chn.kids, 1, st, escapedPrefix, nextNamePrefix, callback, 0)
          ELSE IF getIteratorFn(chn)
          THEN mapEach(chn.kids, 1, st, escapedPrefix, nextNamePrefix, callback, 0)
          ELSE IF type = "object"
          THEN InvalidChild(st)
          ELSE [st EXCEPT !.ret = 0]

----------------------------------------------------------------------------
(* The public operations.  A result is what the caller gets:                *)
(*   kind   "null" / "undefined" (the value itself), "array", "number",     *)
(*          "element" or "throw"                                            *)
(*   st     the traversal state at the end                                  *)

Outcome(kind, st) == [kind |-> kind, st |-> st]

\* Variant of mapChildren: the children == null guard is left out
mapChildrenNoGuard(chn, func) ==
  LET st == mapIntoArray(chn, EmptyState, <<>>, <<>>, CountingCallback(func))
  IN Outcome(IF st.err THEN "throw" ELSE "array", st)

\* if (children == null) return children; ... return result
mapChildren(chn, func) ==
  IF IsNullish(chn) THEN Outcome(chn.tag, EmptyState)
  ELSE LET st == mapIntoArray(chn, EmptyState, <<>>, <<>>, CountingCallback(func))
       IN Outcome(IF st.err THEN "throw" ELSE "array", st)

\* let n = 0; mapChildren(children, () => { n++; }); return n
countChildren(chn) ==
  LET r == mapChildren(chn, [kind |-> "count", f |-> <<>>])
  IN IF r.kind = "throw" THEN r ELSE Outcome("number", r.st)

\* mapChildren(children, function() { forEachFunc.apply(this, arguments); })
forEachChildren(chn, forEachFunc) ==
  LET r == mapChildren(chn, [kind |-> "forEach", f |-> forEachFunc])
  IN IF r.kind = "throw" THEN r ELSE Outcome("undefined", r.st)

\* mapChildren(children, child => child) || []
toArray(chn) ==
  LET r == mapChildren(chn, [kind |-> "toArray", f |-> <<>>])
  IN IF r.kind \in {"null", "undefined"} THEN Outcome("array", r.st) ELSE r

\* Variant of onlyChild: a one-item array is accepted as well
onlyChildFirstOfOne(chn) ==
  IF isValidElement(chn) \/ (IsArray(chn) /\ Len(chn.kids) = 1)
  THEN Outcome("element", EmptyState)
  ELSE Outcome("throw", [EmptyState EXCEPT !.err = TRUE])

\* invariant(isValidElement(children), ...); return children
onlyChild(chn) ==
  IF isValidElement(chn) THEN Outcome("element", EmptyState)
  ELSE Outcome("throw", [EmptyState EXCEPT !.err = TRUE])

----------------------------------------------------------------------------
(* The inputs: children trees of at most MaxSize nodes over a set of        *)
(* leaves, callbacks under test, raw keys of at most MaxKeyLen characters.  *)

RECURSIVE TreesOfSize(_, _)
RECURSIVE ForestsOfSize(_, _)

TreesOfSize(leaves, n) ==
  IF n = 1 THEN leaves \cup {ArrayOf(<<>>), IterableOf(<<>>)}
  ELSE {ArrayOf(f) : f \in ForestsOfSize(leaves, n - 1)}
         \cup {IterableOf(f) : f \in ForestsOfSize(leaves, n - 1)}

ForestsOfSize(leaves, n) ==
  IF n = 0 THEN {<<>>}
  ELSE UNION { { <<t>> \o f : t \in TreesOfSize(leaves, k),
                              f \in ForestsOfSize(leaves, n - k) } : k \in 1..n }

Trees(leaves) == UNION { TreesOfSize(leaves, n) : n \in 1..MaxSize }

TraversalLeaves ==
  { NullValue, UndefinedValue, BoolValue, StringValue("s"),
    Element("A", NoKey), Portal("P", NoKey), PlainObject }

TraversalTrees == Trees(TraversalLeaves)

TraversalKinds == {"same", "none", "pair", "bad"}

TreeKeys == { NoKey, <<<<"0">>>>, <<<<"/">>>>, <<<<"0", ":", "0">>>> }

KeyedLeaves == { Element("A", k) : k \in TreeKeys }

KeyedTrees == Trees(KeyedLeaves)

KeyedKinds == {"same", "single", "pair", "noKey", "key0", "keyEmpty", "keyDot1"}

ForEachFuncs == { <<"same", "none">>, <<"pair", "bad">> }

KeyChars == {"=", ":", ".", "$", "0", "2"}

RECURSIVE StringsOfLen(_)
StringsOfLen(n) ==
  IF n = 0 THEN {<<>>}
  ELSE { <<c>> \o s : c \in KeyChars, s \in StringsOfLen(n - 1) }

KeyStrings == UNION { StringsOfLen(n) : n \in 0..MaxKeyLen }

----------------------------------------------------------------------------
(* The state machine: an operation of React.Children is applied to the      *)
(* children value, once.                                                    *)

NoResult == Outcome("none", EmptyState)

Init ==
  /\ children \in TraversalTrees
  /\ op = "idle"
  /\ fn = <<>>
  /\ result = NoResult
  /\ rawKeys = <<>>
  /\ escapedKeys = <<>>

InitKeys ==
  /\ children \in KeyedTrees
  /\ op = "idle"
  /\ fn = <<>>
  /\ result = NoResult
  /\ rawKeys = <<>>
  /\ escapedKeys = <<>>

InitEscape ==
  /\ children = NullValue
  /\ op = "idle"
  /\ fn = <<>>
  /\ result = NoResult
  /\ rawKeys \in KeyStrings \X KeyStrings
  /\ escapedKeys = <<>>

\* React.Children.map(children, f)
Map(kinds) ==
  \E f \in kinds \X kinds :
    /\ op = "idle"
    /\ op' = "map"
    /\ fn' = f
    /\ result' = mapChildren(children, [kind |-> "user", f |-> f])
    /\ UNCHANGED <<children, rawKeys, escapedKeys>>

\* React.Children.forEach(children, f)
ForEach ==
  \E f \in ForEachFuncs :
    /\ op = "idle"
    /\ op' = "forEach"
    /\ fn' = f
    /\ result' = forEachChildren(children, f)
    /\ UNCHANGED <<children, rawKeys, escapedKeys>>

\* React.Children.count(children)
Count ==
  /\ op = "idle"
  /\ op' = "count"
  /\ result' = countChildren(children)
  /\ UNCHANGED <<children, fn, rawKeys, escapedKeys>>

\* React.Children.toArray(children)
ToArray ==
  /\ op = "idle"
  /\ op' = "toArray"
  /\ result' = toArray(children)
  /\ UNCHANGED <<children, fn, rawKeys, escapedKeys>>

\* React.Children.only(children)
Only ==
  /\ op = "idle"
  /\ op' = "only"
  /\ result' = onlyChild(children)
  /\ UNCHANGED <<children, fn, rawKeys, escapedKeys>>

\* escape(a), escape(b) for two raw keys
Escape ==
  /\ op = "idle"
  /\ op' = "escape"
  /\ escapedKeys' = <<escape(rawKeys[1]), escape(rawKeys[2])>>
  /\ UNCHANGED <<children, fn, result, rawKeys>>

Next == Map(TraversalKinds) \/ ForEach \/ Count \/ ToArray \/ Only

NextKeys == Map(KeyedKinds) \/ ForEach \/ Count \/ ToArray \/ Only

NextEscape == Escape

Spec == Init /\ [][Next]_vars

SpecKeys == InitKeys /\ [][NextKeys]_vars

SpecEscape == InitEscape /\ [][NextEscape]_vars

----------------------------------------------------------------------------
(* What the properties are stated with: the leaves of a children tree in    *)
(* pre-order, left to right, read off the tree itself.                      *)

IsContainer(t) == t.tag \in {"array", "iterable"}

IsInvalid(t) == t.tag = "object"

IsNullLeaf(t) == t.tag \in {"null", "undefined", "boolean"}

\* What the callback is handed for a leaf: null for undefined and booleans
Normalized(t) == IF IsNullLeaf(t) THEN NullValue ELSE t

RECURSIVE LeavesOf(_)
RECURSIVE LeavesOfAll(_)

\* The leaves of t in pre-order (an invalid object is no leaf)
LeavesOf(t) ==
  IF IsContainer(t) THEN LeavesOfAll(t.kids)
  ELSE IF IsInvalid(t) THEN <<>>
  ELSE <<t>>

LeavesOfAll(ts) ==
  IF ts = <<>> THEN <<>> ELSE LeavesOf(Head(ts)) \o LeavesOfAll(Tail(ts))

RECURSIVE HasInvalid(_)
HasInvalid(t) ==
  \/ IsInvalid(t)
  \/ IsContainer(t) /\ \E i \in 1..Len(t.kids) : HasInvalid(t.kids[i])

RECURSIVE LeavesBeforeInvalid(_)
RECURSIVE LeavesBeforeInvalidAll(_)

\* The leaves of t that precede, in pre-order, its first invalid object
LeavesBeforeInvalid(t) ==
  IF IsContainer(t) THEN LeavesBeforeInvalidAll(t.kids)
  ELSE IF IsInvalid(t) THEN <<>>
  ELSE <<t>>

LeavesBeforeInvalidAll(ts) ==
  IF ts = <<>> THEN <<>>
  ELSE IF HasInvalid(Head(ts)) THEN LeavesBeforeInvalid(Head(ts))
  ELSE LeavesOf(Head(ts)) \o LeavesBeforeInvalidAll(Tail(ts))

\* The leaves the operations visit: a children value that is itself null or
\* undefined is handed back before any traversal starts
VisitedLeaves(t) == IF IsNullish(t) THEN <<>> ELSE LeavesOf(t)

NumLeaves(t) == Len(VisitedLeaves(t))

NumNonNullLeaves(t) ==
  Cardinality({i \in 1..NumLeaves(t) : ~IsNullLeaf(VisitedLeaves(t)[i])})

Traversed == op \in {"map", "forEach", "count", "toArray"}

Calls == result.st.calls

Entries == result.st.array

Origin == result.st.origin

\* The entries of the output that came from the call with the given index
EntriesFrom(index) == {i \in 1..Len(Entries) : Origin[i] = index}

----------------------------------------------------------------------------
(* C1 *)

\* C1 (as stated): for every tree T of n leaves without an invalid object,
\* count(T) = n, toArray(T) has n entries and forEach(T, f) calls f n times.
C1_CountToArrayForEachAgree ==
  ~HasInvalid(children) =>
    /\ op = "count" => result.kind = "number" /\ result.st.n = NumLeaves(children)
    /\ op = "toArray" => result.kind = "array" /\ Len(Entries) = NumLeaves(children)
    /\ op = "forEach" => Len(Calls) = NumLeaves(children)

\* C1 (amended): count(T) = n and forEach(T, f) calls f n times, once per
\* leaf in pre-order (a children value that is itself null or undefined has
\* no leaf); toArray(T) has one entry per leaf that is not null, undefined
\* or a boolean.
C1_CountAndForEachCountLeaves ==
  ~HasInvalid(children) =>
    /\ op = "count" => result.kind = "number" /\ result.st.n = NumLeaves(children)
    /\ op = "toArray" =>
         /\ result.kind = "array"
         /\ Len(Entries) = NumNonNullLeaves(children)
    /\ op = "forEach" =>
         /\ Len(Calls) = NumLeaves(children)
         /\ \A i \in 1..Len(Calls) :
              Calls[i].child = Normalized(VisitedLeaves(children)[i])

C1_Witness ==
  /\ op = "toArray"
  /\ result.kind = "array"
  /\ ~HasInvalid(children)
  /\ Len(Entries) >= 1
  /\ Len(Entries) < NumLeaves(children)

----------------------------------------------------------------------------
(* C2 *)

\* C2: map(children, fn) calls fn once per leaf, in pre-order, with the
\* indices 0, 1, 2, ...; the entries of the output are in the order of the
\* leaves they came from, so the entries flattened from a sequence fn
\* returned for a leaf are contiguous and precede those of any later leaf.
\* (A traversal that throws has called fn for a prefix of the leaves.)
C2_MapVisitsLeavesInPreOrder ==
  op = "map" =>
    /\ Len(Calls) <= NumLeaves(children)
    /\ result.kind = "array" => Len(Calls) = NumLeaves(children)
    /\ \A i \in 1..Len(Calls) :
         /\ Calls[i].index = i - 1
         /\ Calls[i].child = Normalized(VisitedLeaves(children)[i])
    /\ Len(Origin) = Len(Entries)
    /\ \A i, j \in 1..Len(Entries) : i < j => Origin[i] <= Origin[j]
    /\ \A i \in 1..Len(Calls) :
         result.kind = "array" /\ IsArray(Calls[i].ret) =>
           Cardinality(EntriesFrom(i - 1)) = Len(LeavesOf(Calls[i].ret))

C2_Witness ==
  /\ op = "map"
  /\ result.kind = "array"
  /\ \E i \in 1..Len(children.kids) : IsContainer(children.kids[i])
  /\ Len(Calls) >= 2
  /\ IsArray(Calls[1].ret)
  /\ Cardinality(EntriesFrom(0)) = 2
  /\ Cardinality(EntriesFrom(1)) >= 1

----------------------------------------------------------------------------
(* C3 *)

\* C3 (as stated): when children is null, undefined or a boolean, map
\* returns children itself and never calls fn, and toArray is empty.
C3_NullValuesAreHandedBack ==
  IsNullLeaf(children) =>
    /\ op = "map" => result.kind = children.tag /\ Calls = <<>>
    /\ op = "toArray" => result.kind = "array" /\ Entries = <<>>

\* C3 (amended): when children is null or undefined, map returns children
\* itself and never calls fn; when children is a boolean, map calls fn once,
\* with null and the index 0, and returns an array (or throws, when fn
\* returned an array holding a plain object); toArray is empty in all three
\* cases.
C3_NullAndUndefinedAreHandedBack ==
  /\ IsNullish(children) /\ op = "map" =>
       result.kind = children.tag /\ Calls = <<>>
  /\ children.tag = "boolean" /\ op = "map" =>
       /\ Len(Calls) = 1
       /\ Calls[1].child = NullValue
       /\ Calls[1].index = 0
       /\ result.kind =
            IF IsArray(Calls[1].ret) /\ HasInvalid(Calls[1].ret)
            THEN "throw" ELSE "array"
  /\ IsNullLeaf(children) /\ op = "toArray" =>
       result.kind = "array" /\ Entries = <<>>

C3_Witness ==
  /\ op = "map"
  /\ children = UndefinedValue
  /\ result.kind = "undefined"
  /\ fn = <<"same", "same">>

----------------------------------------------------------------------------
(* C6 *)

\* C6: a plain object reached in a traversal (in the tree, or in an array
\* the callback returned) makes the operation throw: the caller gets no
\* result, and the callback is called for no leaf after that point.
C6_InvalidChildAborts ==
  Traversed =>
    /\ HasInvalid(children) =>
         /\ result.kind = "throw"
         /\ Len(Calls) <= Len(LeavesBeforeInvalid(children))
    /\ \A i \in 1..Len(Calls) :
         IsArray(Calls[i].ret) /\ HasInvalid(Calls[i].ret) =>
           /\ result.kind = "throw"
           /\ i = Len(Calls)

C6_Witness ==
  /\ op = "map"
  /\ result.kind = "throw"
  /\ HasInvalid(children)
  /\ Len(Calls) = 1
  /\ ~IsArray(Calls[1].ret)
  /\ NumLeaves(children) = 2

----------------------------------------------------------------------------
(* C7 *)

----------------------------------------------------------------------------
(* C8 *)

HasChar(str, c) == \E i \in 1..Len(str) : str[i] = c

\* C8 (as stated): escape is injective, and its output holds neither '.'
\* nor ':'.
C8_EscapeInjectiveNoSeparators ==
  op = "escape" =>
    /\ rawKeys[1] # rawKeys[2] => escapedKeys[1] # escapedKeys[2]
    /\ \A k \in 1..2 :
         ~HasChar(escapedKeys[k], ".") /\ ~HasChar(escapedKeys[k], ":")

\* C8 (amended): escape is injective, and its output holds no ':' and no
\* '=' other than the first character of '=0' or '=2'; '.' is not escaped:
\* the output holds a '.' exactly when the raw key does.
C8_EscapeInjectiveNoSubseparator ==
  op = "escape" =>
    /\ rawKeys[1] # rawKeys[2] => escapedKeys[1] # escapedKeys[2]
    /\ \A k \in 1..2 :
         /\ ~HasChar(escapedKeys[k], ":")
         /\ \A i \in 1..Len(escapedKeys[k]) :
              escapedKeys[k][i] = "=" =>
                /\ i < Len(escapedKeys[k])
                /\ escapedKeys[k][i + 1] \in {"0", "2"}
         /\ HasChar(escapedKeys[k], ".") <=> HasChar(rawKeys[k], ".")

C8_Witness ==
  /\ op = "escape"
  /\ rawKeys[1] = <<":">>
  /\ rawKeys[2] = <<"=", "2">>
  /\ escapedKeys[1] = <<"$", "=", "2">>

----------------------------------------------------------------------------
(* C4 *)

RECURSIVE SiblingKeysDistinct(_)
\* No two items of one container carry the same explicit key
SiblingKeysDistinct(t) ==
  IsContainer(t) =>
    /\ \A i, j \in 1..Len(t.kids) :
         i < j /\ t.kids[i].key # NoKey => t.kids[i].key # t.kids[j].key
    /\ \A i \in 1..Len(t.kids) : SiblingKeysDistinct(t.kids[i])

KeysPairwiseDistinct ==
  \A i, j \in 1..Len(Entries) : i < j => Entries[i].key # Entries[j].key

\* C4 (as stated): in toArray(T), element leaves at distinct positions of T
\* get distinct keys, whatever explicit keys the elements carry.
C4_DistinctPositionsDistinctKeys ==
  op = "toArray" /\ result.kind = "array" =>
    /\ Len(Entries) = NumLeaves(children)
    /\ KeysPairwiseDistinct

\* C4 (amended): in toArray(T), element leaves at distinct positions of T
\* get distinct keys provided no two items of one container of T carry the
\* same explicit key.
C4_DistinctKeysUnlessSiblingsShareAKey ==
  op = "toArray" /\ result.kind = "array" /\ SiblingKeysDistinct(children) =>
    /\ Len(Entries) = NumLeaves(children)
    /\ KeysPairwiseDistinct

C4_Witness ==
  /\ op = "toArray"
  /\ result.kind = "array"
  /\ SiblingKeysDistinct(children)
  /\ Len(children.kids) = 2
  /\ IsContainer(children.kids[1])
  /\ children.kids[2].key = <<<<"0", ":", "0">>>>
  /\ Len(Entries) = 2
  /\ Entries[1].key = <<<<".", "0", ":", "0">>>>

----------------------------------------------------------------------------
(* C5 *)

IsPrefixOf(pre, str) == Len(pre) <= Len(str) /\ SubSeq(str, 1, Len(pre)) = pre

\* C5: when the callback returns an array for a leaf, each entry that came
\* from it is keyed with a prefix derived from that leaf's key path, and no
\* two entries that came from different leaves have the same key.  (Stated
\* for the trees whose siblings carry distinct explicit keys.)
C5_NoKeySharedAcrossLeaves ==
  op = "map" /\ result.kind = "array" /\ SiblingKeysDistinct(children) =>
    /\ \A c \in 1..Len(Calls) :
         IsArray(Calls[c].ret) =>
           \A i \in EntriesFrom(c - 1) :
             IsPrefixOf(escapeUserProvidedKey(Calls[c].childKey) \o <<"/">>,
                        Entries[i].key[1])
    /\ \A i, j \in 1..Len(Entries) :
         Origin[i] # Origin[j] => Entries[i].key # Entries[j].key

----------------------------------------------------------------------------
(* C9 *)

\* The fragment F of C9
C9_Fragment(mappedChild, child) ==
  IF mappedChild.key # NoKey /\ mappedChild.key # child.key
  THEN escapeUserProvidedKey(mappedChild.key[1]) \o <<"/">>
  ELSE <<>>

\* C9: when the callback returns a single element mappedChild for a leaf
\* child, the entry appended is keyed escapedPrefix + F + childKey, where F
\* is escapeUserProvidedKey(mappedChild.key) + '/' exactly when mappedChild
\* has a non-null key that differs from child's key, and '' otherwise.
C9_SingleElementKey ==
  op = "map" =>
    \A c \in 1..Len(Calls) :
      isValidElement(Calls[c].ret) =>
        /\ Cardinality(EntriesFrom(c - 1)) = 1
        /\ \A i \in EntriesFrom(c - 1) :
             Entries[i].key =
               << Calls[c].escapedPrefix
                    \o C9_Fragment(Calls[c].ret, Calls[c].child)
                    \o Calls[c].childKey >>

----------------------------------------------------------------------------
(* C10 *)

Min(S) == CHOOSE x \in S : \A y \in S : x <= y

\* The entries that came from the call with the given index, in order
EntriesSeqFrom(index) ==
  IF EntriesFrom(index) = {} THEN <<>>
  ELSE SubSeq(Entries, Min(EntriesFrom(index)),
              Min(EntriesFrom(index)) + Cardinality(EntriesFrom(index)) - 1)

\* C10: when the callback returns a sequence for a leaf, the sequence is
\* re-flattened with escapedPrefix = the current escapedPrefix +
\* escapeUserProvidedKey(childKey) + '/', with nameSoFar = '' and with the
\* identity callback: the entries that come from the leaf are those of
\* toArray(the sequence), each key with that prefix put before it.
C10_ReflattenPrefix ==
  op = "map" =>
    /\ Len(result.st.log) = Cardinality({c \in 1..Len(Calls) : IsArray(Calls[c].ret)})
    /\ \A l \in 1..Len(result.st.log) :
         LET entry == result.st.log[l]
         IN /\ entry.newPrefix =
                 entry.escapedPrefix
                   \o escapeUserProvidedKey(entry.childKey) \o <<"/">>
            /\ entry.nameSoFar = <<>>
            /\ entry.callback = "identity"
    /\ result.kind = "array" =>
         \A c \in 1..Len(Calls) :
           IsArray(Calls[c].ret) =>
             LET flat == toArray(Calls[c].ret).st.array
                 got == EntriesSeqFrom(c - 1)
                 prefix == Calls[c].escapedPrefix
                             \o escapeUserProvidedKey(Calls[c].childKey)
                             \o <<"/">>
             IN /\ Len(got) = Len(flat)
                /\ \A i \in 1..Len(flat) :
                     got[i] = [flat[i] EXCEPT !.key = <<prefix \o flat[i].key[1]>>]

C10_Witness ==
  /\ op = "map"
  /\ result.kind = "array"
  /\ Len(Calls) = 2
  /\ Calls[2].ret = ReturnOf("pair", Calls[2].child)
  /\ HasChar(Calls[2].childKey, "/")
  /\ Calls[2].childKey # escapeUserProvidedKey(Calls[2].childKey)
  /\ Len(EntriesSeqFrom(1)) = 2

====
